---- MODULE Spec2Model ----
(***************************************************************************)
(* xml-render: the registry-aware tag parser of src/src/parser.ts.         *)
(*                                                                         *)
(* Strings are sequences of one-character strings.  Indexes handed to the  *)
(* string helpers are 0-based, as in the source, and -1 means "not found". *)
(***************************************************************************)
EXTENDS Integers, Sequences, FiniteSets, TLC

(***************************************************************************)
(* String helpers: the methods of String.prototype the parser uses.        *)
(* A value used several times is bound once, as the parameter of a local   *)
(* operator (LET With(x) == ... IN With(e)).                               *)
(***************************************************************************)
MinOf(S) == CHOOSE x \in S : \A y \in S : x <= y

MaxOf(S) == CHOOSE x \in S : \A y \in S : x >= y

\* s.slice(a, b) for 0 <= a, 0 <= b
Slice(s, a, b) ==
    LET e == IF b > Len(s) THEN Len(s) ELSE b
    IN  IF a >= e THEN <<>> ELSE SubSeq(s, a + 1, e)

\* s.slice(a)
SliceFrom(s, a) == Slice(s, a, Len(s))

UpperCase == <<"A","B","C","D","E","F","G","H","I","J","K","L","M",
               "N","O","P","Q","R","S","T","U","V","W","X","Y","Z">>

LowerCase == <<"a","b","c","d","e","f","g","h","i","j","k","l","m",
               "n","o","p","q","r","s","t","u","v","w","x","y","z">>

Digits == {"0","1","2","3","4","5","6","7","8","9"}

\* one character of s.toLowerCase()
LowerChar(c) ==
    IF \E i \in 1..26 : UpperCase[i] = c
    THEN LowerCase[CHOOSE i \in 1..26 : UpperCase[i] = c]
    ELSE c

ToLowerCase(s) == [i \in 1..Len(s) |-> LowerChar(s[i])]

\* \s of the regular expressions
IsSpace(c) == c \in {" ", "\t", "\n", "\r"}

\* \w of the regular expressions
IsWordChar(c) ==
    \/ \E i \in 1..26 : UpperCase[i] = c \/ LowerCase[i] = c
    \/ c \in Digits
    \/ c = "_"

\* p occurs in s at 0-based index i
OccursAt(s, p, i) ==
    /\ i >= 0
    /\ i + Len(p) <= Len(s)
    /\ \A k \in 1..Len(p) : s[i + k] = p[k]

\* p occurs in s at 0-based index i, letter case ignored (flag "i")
OccursAtCI(s, p, i) ==
    /\ i >= 0
    /\ i + Len(p) <= Len(s)
    /\ \A k \in 1..Len(p) : LowerChar(s[i + k]) = LowerChar(p[k])

\* s.indexOf(p)
IndexOf(s, p) ==
    LET With(I) == IF I = {} THEN -1 ELSE MinOf(I)
    IN  With({i \in 0..(Len(s) - Len(p)) : OccursAt(s, p, i)})

\* s.lastIndexOf(c) for a one-character c
LastIndexOf(s, c) ==
    LET With(I) == IF I = {} THEN -1 ELSE MaxOf(I)
    IN  With({i \in 0..(Len(s) - 1) : s[i + 1] = c})

\* s.endsWith(p)
EndsWith(s, p) == Len(p) <= Len(s) /\ OccursAt(s, p, Len(s) - Len(p))

\* s.replace(/p/g, r): every occurrence of the literal p, left to right,
\* non-overlapping, the replacement not scanned again
RECURSIVE ReplaceAll(_, _, _)
ReplaceAll(s, p, r) ==
    LET With(i) ==
            IF i = -1 THEN s
            ELSE Slice(s, 0, i) \o r \o ReplaceAll(SliceFrom(s, i + Len(p)), p, r)
    IN  With(IndexOf(s, p))

(***************************************************************************)
(* Entity decoder and attribute parser                                     *)
(***************************************************************************)
MAX_INCOMPLETE_TAG_LENGTH == 20

\* the four replaces followed by one of the numeric reference of '&'
decodeXmlEntitiesAndNumeric(text) ==
    ReplaceAll(
        ReplaceAll(
            ReplaceAll(
                ReplaceAll(
                    ReplaceAll(text, <<"&","l","t",";">>, <<"<">>),
                    <<"&","g","t",";">>, <<">">>),
                <<"&","a","m","p",";">>, <<"&">>),
            <<"&","q","u","o","t",";">>, <<"\"">>),
        <<"&","#","3","8",";">>, <<"&">>)

\* four global replaces, applied one after the other in this order
decodeXmlEntities(text) ==
    ReplaceAll(
        ReplaceAll(
            ReplaceAll(
                ReplaceAll(text, <<"&","l","t",";">>, <<"<">>),
                <<"&","g","t",";">>, <<">">>),
            <<"&","a","m","p",";">>, <<"&">>),
        <<"&","q","u","o","t",";">>, <<"\"">>)

\* One match of /(\w+)=(?:"([^"]*)"|'([^']*)')/ anchored at 0-based index i:
\* the greedy \w+ run from i must be followed by '=', a quote and, later,
\* the same quote.  A run cut short is never followed by '=', so only the
\* whole run can match.
NoAttrMatch == [ok |-> FALSE, key |-> <<>>, value |-> <<>>, end |-> 0]

\* 0-based index just after the run of \w characters that starts at i, or -1
WordRunEnd(s, i) ==
    LET With(ends) == IF ends = {} THEN -1 ELSE MinOf(ends)
    IN  With({e \in (i + 1)..Len(s) :
                /\ \A k \in (i + 1)..e : IsWordChar(s[k])
                /\ (e = Len(s) \/ ~IsWordChar(s[e + 1]))})

\* the rest of the match, the key being s[i..e)
AttrAfterKey(s, i, e) ==
    LET With(cl) ==
            IF cl = {} THEN NoAttrMatch
            ELSE [ok    |-> TRUE,
                  key   |-> Slice(s, i, e),
                  value |-> Slice(s, e + 2, MinOf(cl) - 1),
                  end   |-> MinOf(cl)]
    IN  IF e # -1 /\ e + 2 <= Len(s) /\ s[e + 1] = "=" /\ s[e + 2] \in {"\"", "'"}
        THEN With({c \in (e + 3)..Len(s) : s[c] = s[e + 2]})
        ELSE NoAttrMatch

AttrMatchAt(s, i) == AttrAfterKey(s, i, WordRunEnd(s, i))

\* an assignment that keeps the value a key already has
SetAttrKeepsFirst(attrs, key, value) ==
    IF \E kv \in attrs : kv[1] = key THEN attrs ELSE attrs \cup {<<key, value>>}

\* A raw attribute map is a set of <<key, value>> pairs with one pair per key.
SetAttr(attrs, key, value) ==
    {kv \in attrs : kv[1] # key} \cup {<<key, value>>}

\* the exec loop of parseAttributes from 0-based index `from`
RECURSIVE AttrScan(_, _, _)
AttrScan(s, from, attrs) ==
    LET Found(m) == AttrScan(s, m.end, SetAttr(attrs, m.key, decodeXmlEntities(m.value)))
        With(I)  == IF I = {} THEN attrs ELSE Found(AttrMatchAt(s, MinOf(I)))
    IN  With({i \in from..(Len(s) - 1) : AttrMatchAt(s, i).ok})

parseAttributes(attrString) ==
    IF attrString = <<>> THEN {} ELSE AttrScan(attrString, 0, {})

(***************************************************************************)
(* Tag matcher.  escapeRegex makes every tag name match literally, so the  *)
(* compiled openingTagPattern (flag "i") is modelled by literal,           *)
(* case-insensitive comparison with the names, tried in registry order at  *)
(* the leftmost '<' where one of them matches.                             *)
(***************************************************************************)
NoMatch ==
    [found |-> FALSE, index |-> -1, text |-> <<>>, name |-> <<>>,
     attrs |-> <<>>, slash |-> FALSE]

\* (\s+[^>]*)?(\/)?> from 0-based index j: both quantifiers are greedy, so
\* once whitespace follows the name, group 2 runs to the first '>' and
\* group 3 stays empty; group 3 is "/" only when "/>" follows the name
\* directly.
NoTail == [ok |-> FALSE, end |-> 0, attrs |-> <<>>, slash |-> FALSE]

\* [^>]*> after the name: no whitespace is asked for
TagTailLoose(s, j) ==
    LET With(gt) ==
            IF gt = {} THEN NoTail
            ELSE [ok |-> TRUE, end |-> MinOf(gt) + 1,
                  attrs |-> Slice(s, j, MinOf(gt)), slash |-> FALSE]
    IN  With({k \in j..(Len(s) - 1) : s[k + 1] = ">"})

TagTailAt(s, j) ==
    LET n == Len(s)
        With(gt) ==
            IF gt = {} THEN NoTail
            ELSE [ok |-> TRUE, end |-> MinOf(gt) + 1,
                  attrs |-> Slice(s, j, MinOf(gt)), slash |-> FALSE]
    IN  IF j >= n THEN NoTail
        ELSE IF IsSpace(s[j + 1])
        THEN With({k \in j..(n - 1) : s[k + 1] = ">"})
        ELSE IF s[j + 1] = "/" /\ j + 1 < n /\ s[j + 2] = ">"
        THEN [ok |-> TRUE, end |-> j + 2, attrs |-> <<>>, slash |-> TRUE]
        ELSE IF s[j + 1] = ">"
        THEN [ok |-> TRUE, end |-> j + 1, attrs |-> <<>>, slash |-> FALSE]
        ELSE NoTail

\* tagNames.map(escapeRegex).join("|"): an empty list joins to the empty
\* alternative
Alternatives(tagNames) == IF tagNames = <<>> THEN << <<>> >> ELSE tagNames

\* the pattern anchored at 0-based index i
OpenMatchAt(tagNames, s, i) ==
    LET alts == Alternatives(tagNames)
        Matched(name, t) ==
            [found |-> TRUE, index |-> i, text |-> Slice(s, i, t.end),
             name |-> Slice(s, i + 1, i + 1 + Len(name)),
             attrs |-> t.attrs, slash |-> t.slash]
        First(a) == Matched(alts[a], TagTailAt(s, i + 1 + Len(alts[a])))
        With(A) == IF A = {} THEN NoMatch ELSE First(MinOf(A))
    IN  IF i >= Len(s) \/ s[i + 1] # "<" THEN NoMatch
        ELSE With({a \in 1..Len(alts) :
                     /\ OccursAtCI(s, alts[a], i + 1)
                     /\ TagTailAt(s, i + 1 + Len(alts[a])).ok})

\* remaining.match(openingTagPattern): the leftmost match
MatchOpeningTag(tagNames, s) ==
    LET With(I) == IF I = {} THEN NoMatch ELSE OpenMatchAt(tagNames, s, MinOf(I))
    IN  With({i \in 0..(Len(s) - 1) : OpenMatchAt(tagNames, s, i).found})

\* the text </name> searched by closingTagPattern
ClosingTagText(tagName) == <<"<", "/">> \o tagName \o <<">">>

\* a search that takes the end of the text for the closing tag it misses
MatchClosingTagOrEnd(tagName, s) ==
    LET With(I) == IF I = {} THEN Len(s) ELSE MinOf(I)
    IN  With({i \in 0..(Len(s) - Len(tagName) - 3) :
                 OccursAtCI(s, ClosingTagText(tagName), i)})

\* 0-based index of the leftmost case-insensitive </tagName>, or -1
MatchClosingTag(tagName, s) ==
    LET With(I) == IF I = {} THEN -1 ELSE MinOf(I)
    IN  With({i \in 0..(Len(s) - Len(tagName) - 3) :
                 OccursAtCI(s, ClosingTagText(tagName), i)})

\* /^<[^>]*$/.test(s)
LooksIncomplete(s) ==
    /\ Len(s) > 0
    /\ s[1] = "<"
    /\ \A k \in 1..Len(s) : s[k] # ">"

(***************************************************************************)
(* Registry (src/src/registry.ts).  A registry is a sequence of tag        *)
(* definitions in key order; a schema is a set of fields, each with the    *)
(* values it admits (the empty set: any string).  ReadmeRegistry is the    *)
(* registry of the documentation of createParser.                          *)
(***************************************************************************)
S_callout == <<"c","a","l","l","o","u","t">>
S_image   == <<"i","m","a","g","e">>
S_text    == <<"t","e","x","t">>
S_type    == <<"t","y","p","e">>
S_src     == <<"s","r","c">>
S_alt     == <<"a","l","t">>
S_info    == <<"i","n","f","o">>
S_warning == <<"w","a","r","n","i","n","g">>
S_error   == <<"e","r","r","o","r">>

ReadmeRegistry ==
    << [name |-> S_callout, selfClosing |-> FALSE,
        schema |-> {[key |-> S_type, optional |-> FALSE,
                     values |-> {S_info, S_warning, S_error}]}],
       [name |-> S_image, selfClosing |-> TRUE,
        schema |-> {[key |-> S_src, optional |-> FALSE, values |-> {}],
                    [key |-> S_alt, optional |-> TRUE, values |-> {}]}] >>

\* the same definitions under one-letter tag names
ShortRegistry ==
    << [name |-> <<"c">>, selfClosing |-> FALSE,
        schema |-> {[key |-> S_type, optional |-> FALSE,
                     values |-> {S_info, S_warning, S_error}]}],
       [name |-> <<"i">>, selfClosing |-> TRUE,
        schema |-> {[key |-> S_src, optional |-> FALSE, values |-> {}],
                    [key |-> S_alt, optional |-> TRUE, values |-> {}]}] >>

\* a registry whose key is written with a capital letter
CapitalRegistry ==
    << [name |-> <<"C">>, selfClosing |-> FALSE, schema |-> {}] >>

\* registry.tagNames: Object.keys(definitions)
TagNames(reg) == [i \in 1..Len(reg) |-> reg[i].name]

\* frozenDefs[name], the lookup being by the exact key
HasDef(reg, name) == \E i \in 1..Len(reg) : reg[i].name = name

GetDef(reg, name) == reg[CHOOSE i \in 1..Len(reg) : reg[i].name = name]

\* a lookup that ignores the selfClosing flag of the definition
isSelfClosingNever(reg, name) == FALSE

\* registry.isSelfClosing(name): frozenDefs[name]?.selfClosing ?? false
isSelfClosing(reg, name) == HasDef(reg, name) /\ GetDef(reg, name).selfClosing

\* registry.validateAttributes(name, attributes): schema.safeParse of an
\* object schema, which on success keeps the declared keys only
validateAttributes(reg, name, attributes) ==
    LET With(schema) ==
            [success |-> \A f \in schema :
                            /\ (~f.optional => \E kv \in attributes : kv[1] = f.key)
                            /\ \A kv \in attributes :
                                  (kv[1] = f.key /\ f.values # {}) => kv[2] \in f.values,
             data    |-> {kv \in attributes : \E f \in schema : f.key = kv[1]}]
    IN  IF ~HasDef(reg, name) THEN [success |-> FALSE, data |-> {}]
        ELSE With(GetDef(reg, name).schema)

(***************************************************************************)
(* Segments                                                                *)
(***************************************************************************)
\* attributes: undefined
Undefined == [defined |-> FALSE, map |-> {}]

Defined(map) == [defined |-> TRUE, map |-> map]

\* attributes left undefined when the validation fails
ResolvedAttributesOrNone(reg, normalizedTagName, rawAttrs) ==
    LET With(validationResult) ==
            IF validationResult.success THEN Defined(validationResult.data)
            ELSE Undefined
    IN  With(validateAttributes(reg, normalizedTagName, rawAttrs))

\* the attributes a tag segment gets: the validated data, else the raw map
ResolvedAttributes(reg, normalizedTagName, rawAttrs) ==
    LET With(validationResult) ==
            Defined(IF validationResult.success THEN validationResult.data
                    ELSE rawAttrs)
    IN  With(validateAttributes(reg, normalizedTagName, rawAttrs))

createSegment(reg, tagName, attrString, content) ==
    [type       |-> ToLowerCase(tagName),
     content    |-> decodeXmlEntities(content),
     attributes |-> ResolvedAttributes(reg, ToLowerCase(tagName),
                                       parseAttributes(attrString))]

\* a text segment with an empty attribute map
TextSegmentWithMap(text) ==
    [type |-> S_text, content |-> decodeXmlEntities(text), attributes |-> Defined({})]

TextSegment(text) ==
    [type |-> S_text, content |-> decodeXmlEntities(text), attributes |-> Undefined]

\* addTextSegment without the test for an empty text
addTextSegmentAlways(segments, text) == Append(segments, TextSegment(text))

\* addTextSegment putting the segment first
addTextSegmentFirst(segments, text) ==
    IF text # <<>> THEN << TextSegment(text) >> \o segments ELSE segments

\* addTextSegment(segments, text), as the new value of segments
addTextSegment(segments, text) ==
    IF text # <<>> THEN Append(segments, TextSegment(text)) ELSE segments

(***************************************************************************)
(* parse: one iteration of its while loop on the locals                    *)
(* f = [remaining, textBuffer, segments]                                   *)
\* the iteration without the move past an opening tag that has no closing tag
ParseIterationKeepsOpenTag(reg, f) ==
    LET remaining == f.remaining
        Flushed(segment) ==
            Append(addTextSegment(f.segments, f.textBuffer), segment)
        \* the tag is not self-closing: closeIndex is where its closing tag is
        Content(openMatch, tagName, closeIndex) ==
            IF closeIndex # -1
            THEN [f EXCEPT !.segments =
                              Flushed(createSegment(reg, tagName, openMatch.attrs,
                                  Slice(remaining, Len(openMatch.text), closeIndex))),
                           !.textBuffer = <<>>,
                           !.remaining = SliceFrom(remaining,
                                            closeIndex + Len(ClosingTagText(tagName)))]
            ELSE [f EXCEPT !.textBuffer = f.textBuffer \o openMatch.text]
        With(openMatch) ==
            LET tagIndex == openMatch.index
                tagName  == ToLowerCase(openMatch.name)
                attrStr  == openMatch.attrs
            IN  IF ~openMatch.found
                THEN [f EXCEPT !.textBuffer = f.textBuffer \o remaining,
                               !.remaining = <<>>]
                ELSE IF tagIndex > 0
                THEN [f EXCEPT !.textBuffer = f.textBuffer \o Slice(remaining, 0, tagIndex),
                               !.remaining = SliceFrom(remaining, tagIndex)]
                ELSE IF openMatch.slash \/ isSelfClosing(reg, tagName)
                THEN [f EXCEPT !.segments = Flushed(createSegment(reg, tagName, attrStr, <<>>)),
                               !.textBuffer = <<>>,
                               !.remaining = SliceFrom(remaining, Len(openMatch.text))]
                ELSE Content(openMatch, tagName, MatchClosingTag(tagName, remaining))
    IN  With(MatchOpeningTag(TagNames(reg), remaining))

(***************************************************************************)
ParseIteration(reg, f) ==
    LET remaining == f.remaining
        Flushed(segment) ==
            Append(addTextSegment(f.segments, f.textBuffer), segment)
        \* the tag is not self-closing: closeIndex is where its closing tag is
        Content(openMatch, tagName, closeIndex) ==
            IF closeIndex # -1
            THEN [f EXCEPT !.segments =
                              Flushed(createSegment(reg, tagName, openMatch.attrs,
                                  Slice(remaining, Len(openMatch.text), closeIndex))),
                           !.textBuffer = <<>>,
                           !.remaining = SliceFrom(remaining,
                                            closeIndex + Len(ClosingTagText(tagName)))]
            ELSE [f EXCEPT !.textBuffer = f.textBuffer \o openMatch.text,
                           !.remaining = SliceFrom(remaining, Len(openMatch.text))]
        With(openMatch) ==
            LET tagIndex == openMatch.index
                tagName  == ToLowerCase(openMatch.name)
                attrStr  == openMatch.attrs
            IN  IF ~openMatch.found
                THEN [f EXCEPT !.textBuffer = f.textBuffer \o remaining,
                               !.remaining = <<>>]
                ELSE IF tagIndex > 0
                THEN [f EXCEPT !.textBuffer = f.textBuffer \o Slice(remaining, 0, tagIndex),
                               !.remaining = SliceFrom(remaining, tagIndex)]
                ELSE IF openMatch.slash \/ isSelfClosing(reg, tagName)
                THEN [f EXCEPT !.segments = Flushed(createSegment(reg, tagName, attrStr, <<>>)),
                               !.textBuffer = <<>>,
                               !.remaining = SliceFrom(remaining, Len(openMatch.text))]
                ELSE Content(openMatch, tagName, MatchClosingTag(tagName, remaining))
    IN  With(MatchOpeningTag(TagNames(reg), remaining))

\* parse(text) as a function: the loop run to its end, then the last flush
RECURSIVE ParseLoop(_, _)
ParseLoop(reg, f) ==
    IF Len(f.remaining) > 0 THEN ParseLoop(reg, ParseIteration(reg, f))
    ELSE addTextSegment(f.segments, f.textBuffer)

parse(reg, text) ==
    ParseLoop(reg, [remaining |-> text, textBuffer |-> <<>>, segments |-> <<>>])

(***************************************************************************)
(* Streaming: ParserState values and the two helpers of parseChunk.        *)
(* The helpers write into newState and segments, which the caller passes   *)
(* by reference; here they return the new values, together with `used`,    *)
(* the number of characters of the unconsumed text the step turned into    *)
(* segments or recognized tags (bookkeeping of the model, not of the code).*)
(***************************************************************************)
\* currentTag: null
Null == <<"null">>

\* a string | null used as a condition
Truthy(str) == str # Null /\ str # <<>>

createState ==
    [buffer |-> <<>>, inComponent |-> FALSE, currentTag |-> Null,
     currentAttrs |-> <<>>, tagStartIndex |-> 0]

\* processInsideComponent without `newState.currentTag = null`
processInsideComponentKeepsTag(reg, remaining, newState, segments) ==
    LET closeLen == Len(ClosingTagText(newState.currentTag))
        With(closeIndex) ==
            IF closeIndex # -1
            THEN [null      |-> FALSE,
                  remaining |-> SliceFrom(remaining, closeIndex + closeLen),
                  newState  |-> [newState EXCEPT !.inComponent = FALSE,
                                                 !.currentAttrs = <<>>],
                  segments  |-> Append(segments,
                                    createSegment(reg, newState.currentTag,
                                        newState.currentAttrs,
                                        Slice(remaining, 0, closeIndex))),
                  used      |-> closeIndex + closeLen]
            ELSE [null |-> TRUE, remaining |-> remaining, newState |-> newState,
                  segments |-> segments, used |-> 0]
    IN  With(MatchClosingTag(newState.currentTag, remaining))

\* processInsideComponent dropping the text after the closing tag
processInsideComponentDropsRest(reg, remaining, newState, segments) ==
    LET closeLen == Len(ClosingTagText(newState.currentTag))
        With(closeIndex) ==
            IF closeIndex # -1
            THEN [null      |-> FALSE,
                  remaining |-> <<>>,
                  newState  |-> [newState EXCEPT !.inComponent = FALSE,
                                                 !.currentTag = Null,
                                                 !.currentAttrs = <<>>],
                  segments  |-> Append(segments,
                                    createSegment(reg, newState.currentTag,
                                        newState.currentAttrs,
                                        Slice(remaining, 0, closeIndex))),
                  used      |-> closeIndex + closeLen]
            ELSE [null |-> TRUE, remaining |-> remaining, newState |-> newState,
                  segments |-> segments, used |-> 0]
    IN  With(MatchClosingTag(newState.currentTag, remaining))

processInsideComponent(reg, remaining, newState, segments) ==
    LET closeLen == Len(ClosingTagText(newState.currentTag))
        With(closeIndex) ==
            IF closeIndex # -1
            THEN [null      |-> FALSE,
                  remaining |-> SliceFrom(remaining, closeIndex + closeLen),
                  newState  |-> [newState EXCEPT !.inComponent = FALSE,
                                                 !.currentTag = Null,
                                                 !.currentAttrs = <<>>],
                  segments  |-> Append(segments,
                                    createSegment(reg, newState.currentTag,
                                        newState.currentAttrs,
                                        Slice(remaining, 0, closeIndex))),
                  used      |-> closeIndex + closeLen]
            ELSE [null |-> TRUE, remaining |-> remaining, newState |-> newState,
                  segments |-> segments, used |-> 0]
    IN  With(MatchClosingTag(newState.currentTag, remaining))

processOpenTag(reg, remaining, newState, segments, textBuffer, processedUpTo, bufferLength) ==
    LET same == [null |-> FALSE, remaining |-> remaining, textBuffer |-> textBuffer,
                 processedUpTo |-> processedUpTo, newState |-> newState,
                 segments |-> segments, used |-> 0]
        \* no tag found: potentialTagStart is where the last '<' is
        NoTag(potentialTagStart) ==
            IF /\ potentialTagStart # -1
               /\ potentialTagStart > Len(remaining) - MAX_INCOMPLETE_TAG_LENGTH
            THEN \* might be the start of a tag: the caller's loop goes on
                 [same EXCEPT !.remaining = SliceFrom(remaining, potentialTagStart),
                              !.textBuffer = textBuffer \o Slice(remaining, 0, potentialTagStart),
                              !.processedUpTo =
                                  bufferLength - Len(SliceFrom(remaining, potentialTagStart))]
            ELSE \* no tags, all text
                 [same EXCEPT !.remaining = <<>>,
                              !.textBuffer = textBuffer \o remaining,
                              !.processedUpTo = bufferLength]
        With(openMatch) ==
            LET tagIndex == openMatch.index
                tagName  == ToLowerCase(openMatch.name)
                attrStr  == openMatch.attrs
                afterTag == SliceFrom(remaining, Len(openMatch.text))
            IN  IF ~openMatch.found
                THEN NoTag(LastIndexOf(remaining, "<"))
                ELSE IF tagIndex > 0
                THEN \* text before the tag
                     [same EXCEPT !.remaining = SliceFrom(remaining, tagIndex),
                                  !.textBuffer = textBuffer \o Slice(remaining, 0, tagIndex)]
                ELSE IF EndsWith(remaining, <<"<">>) \/ LooksIncomplete(remaining)
                THEN \* it might be an incomplete tag at the end
                     [same EXCEPT !.null = TRUE]
                ELSE IF openMatch.slash \/ isSelfClosing(reg, tagName)
                THEN [same EXCEPT !.segments = Append(addTextSegment(segments, textBuffer),
                                                  createSegment(reg, tagName, attrStr, <<>>)),
                                  !.remaining = afterTag,
                                  !.textBuffer = <<>>,
                                  !.processedUpTo = bufferLength - Len(afterTag),
                                  !.used = Len(textBuffer) + Len(openMatch.text)]
                ELSE \* start of a component tag with content
                     [same EXCEPT !.segments = addTextSegment(segments, textBuffer),
                                  !.newState = [newState EXCEPT
                                                   !.inComponent = TRUE,
                                                   !.currentTag = tagName,
                                                   !.currentAttrs = attrStr,
                                                   !.tagStartIndex = processedUpTo],
                                  !.remaining = afterTag,
                                  !.textBuffer = <<>>,
                                  !.processedUpTo = bufferLength - Len(afterTag),
                                  !.used = Len(textBuffer) + Len(openMatch.text)]
    IN  With(MatchOpeningTag(TagNames(reg), remaining))

(***************************************************************************)
(* parseChunk.  Its locals are the record                                  *)
(*   f = [remaining, textBuffer, processedUpTo, segments, broke, consumed] *)
(* and ns, the value of the object newState refers to.  broke: the loop    *)
(* was left by break.  consumed: the sum of `used` (model bookkeeping).    *)
(***************************************************************************)
\* locals after `newState.buffer += chunk` and the declarations
ChunkLocals(buffer) ==
    [remaining |-> buffer, textBuffer |-> <<>>, processedUpTo |-> 0,
     segments |-> <<>>, broke |-> FALSE, consumed |-> 0]

\* one iteration of the while loop
ScanIteration(reg, f, ns) ==
    LET Inside(r) ==
            IF r.null
            THEN [f |-> [f EXCEPT !.broke = TRUE], ns |-> ns]
            ELSE [f  |-> [f EXCEPT !.remaining = r.remaining,
                                   !.segments = r.segments,
                                   !.processedUpTo = Len(ns.buffer) - Len(r.remaining),
                                   !.consumed = f.consumed + r.used],
                  ns |-> r.newState]
        Outside(r) ==
            IF r.null
            THEN [f |-> [f EXCEPT !.broke = TRUE], ns |-> ns]
            ELSE [f  |-> [f EXCEPT !.remaining = r.remaining,
                                   !.textBuffer = r.textBuffer,
                                   !.segments = r.segments,
                                   !.processedUpTo = r.processedUpTo,
                                   !.consumed = f.consumed + r.used],
                  ns |-> r.newState]
    IN  IF ns.inComponent /\ Truthy(ns.currentTag)
        THEN Inside(processInsideComponent(reg, f.remaining, ns, f.segments))
        ELSE Outside(processOpenTag(reg, f.remaining, ns, f.segments, f.textBuffer,
                                    f.processedUpTo, Len(ns.buffer)))

\* the loop is over: its condition is false or it was left by break
LoopOver(f) == f.broke \/ Len(f.remaining) = 0

NoPartial == <<>>

\* the partialSegment with the body as it was received
PartialSegmentUndecoded(reg, state, remaining) ==
    IF state.inComponent /\ Truthy(state.currentTag)
    THEN << [type       |-> ToLowerCase(state.currentTag),
             content    |-> remaining,
             attributes |-> ResolvedAttributes(reg, ToLowerCase(state.currentTag),
                                               parseAttributes(state.currentAttrs)),
             streaming  |-> TRUE] >>
    ELSE NoPartial

\* the partialSegment of a result whose state is `state`
PartialSegment(reg, state, remaining) ==
    IF state.inComponent /\ Truthy(state.currentTag)
    THEN << [type       |-> ToLowerCase(state.currentTag),
             content    |-> decodeXmlEntities(remaining),
             attributes |-> ResolvedAttributes(reg, ToLowerCase(state.currentTag),
                                               parseAttributes(state.currentAttrs)),
             streaming  |-> TRUE] >>
    ELSE NoPartial

\* the code after the loop with `+=` in the update of newState.buffer
ChunkResultAppendsBuffer(reg, f, ns) ==
    LET flush      == ~ns.inComponent /\ f.textBuffer # <<>>
        textBuffer == IF flush THEN <<>> ELSE f.textBuffer
        state      == [ns EXCEPT !.buffer = @ \o f.remaining \o textBuffer]
    IN  [segments     |-> IF flush THEN addTextSegment(f.segments, f.textBuffer)
                          ELSE f.segments,
         state        |-> state,
         isBuffering  |-> state.inComponent \/ Len(state.buffer) > 0,
         bufferingTag |-> IF state.inComponent THEN state.currentTag ELSE Null,
         partialSegment |-> PartialSegment(reg, state, f.remaining),
         consumed     |-> f.consumed + (IF flush THEN Len(f.textBuffer) ELSE 0)]

\* the code after the loop without the flush of textBuffer
ChunkResultNoFlush(reg, f, ns) ==
    LET state == [ns EXCEPT !.buffer = f.remaining \o f.textBuffer]
    IN  [segments     |-> f.segments,
         state        |-> state,
         isBuffering  |-> state.inComponent \/ Len(state.buffer) > 0,
         bufferingTag |-> IF state.inComponent THEN state.currentTag ELSE Null,
         partialSegment |-> PartialSegment(reg, state, f.remaining),
         consumed     |-> f.consumed]

\* the code after the loop without `textBuffer = ""` after the flush
ChunkResultKeepsText(reg, f, ns) ==
    LET flush == ~ns.inComponent /\ f.textBuffer # <<>>
        state == [ns EXCEPT !.buffer = f.remaining \o f.textBuffer]
    IN  [segments     |-> IF flush THEN addTextSegment(f.segments, f.textBuffer)
                          ELSE f.segments,
         state        |-> state,
         isBuffering  |-> state.inComponent \/ Len(state.buffer) > 0,
         bufferingTag |-> IF state.inComponent THEN state.currentTag ELSE Null,
         partialSegment |-> PartialSegment(reg, state, f.remaining),
         consumed     |-> f.consumed + (IF flush THEN Len(f.textBuffer) ELSE 0)]

\* the code after the loop with the buffer kept entity-decoded
ChunkResultDecodesBuffer(reg, f, ns) ==
    LET flush      == ~ns.inComponent /\ f.textBuffer # <<>>
        textBuffer == IF flush THEN <<>> ELSE f.textBuffer
        state      == [ns EXCEPT !.buffer = decodeXmlEntities(f.remaining \o textBuffer)]
    IN  [segments     |-> IF flush THEN addTextSegment(f.segments, f.textBuffer)
                          ELSE f.segments,
         state        |-> state,
         isBuffering  |-> state.inComponent \/ Len(state.buffer) > 0,
         bufferingTag |-> IF state.inComponent THEN state.currentTag ELSE Null,
         partialSegment |-> PartialSegment(reg, state, f.remaining),
         consumed     |-> f.consumed + (IF flush THEN Len(f.textBuffer) ELSE 0)]

\* the code after the loop without the update of newState.buffer
ChunkResultKeepsBuffer(reg, f, ns) ==
    LET flush == ~ns.inComponent /\ f.textBuffer # <<>>
    IN  [segments     |-> IF flush THEN addTextSegment(f.segments, f.textBuffer)
                          ELSE f.segments,
         state        |-> ns,
         isBuffering  |-> ns.inComponent \/ Len(ns.buffer) > 0,
         bufferingTag |-> IF ns.inComponent THEN ns.currentTag ELSE Null,
         partialSegment |-> PartialSegment(reg, ns, f.remaining),
         consumed     |-> f.consumed + (IF flush THEN Len(f.textBuffer) ELSE 0)]

\* the code after the loop with isBuffering true inside an open tag only
ChunkResultBufferingInTag(reg, f, ns) ==
    LET flush      == ~ns.inComponent /\ f.textBuffer # <<>>
        textBuffer == IF flush THEN <<>> ELSE f.textBuffer
        state      == [ns EXCEPT !.buffer = f.remaining \o textBuffer]
    IN  [segments     |-> IF flush THEN addTextSegment(f.segments, f.textBuffer)
                          ELSE f.segments,
         state        |-> state,
         isBuffering  |-> state.inComponent,
         bufferingTag |-> IF state.inComponent THEN state.currentTag ELSE Null,
         partialSegment |-> PartialSegment(reg, state, f.remaining),
         consumed     |-> f.consumed + (IF flush THEN Len(f.textBuffer) ELSE 0)]

\* the code after the loop: the StreamingParseResult, with the value of the
\* returned state in place of the reference
ChunkResult(reg, f, ns) ==
    LET flush      == ~ns.inComponent /\ f.textBuffer # <<>>
        textBuffer == IF flush THEN <<>> ELSE f.textBuffer
        state      == [ns EXCEPT !.buffer = f.remaining \o textBuffer]
    IN  [segments     |-> IF flush THEN addTextSegment(f.segments, f.textBuffer)
                          ELSE f.segments,
         state        |-> state,
         isBuffering  |-> state.inComponent \/ Len(state.buffer) > 0,
         bufferingTag |-> IF state.inComponent THEN state.currentTag ELSE Null,
         partialSegment |-> PartialSegment(reg, state, f.remaining),
         consumed     |-> f.consumed + (IF flush THEN Len(f.textBuffer) ELSE 0)]

\* a finalize that flushes nothing while a tag is open
finalizeOutsideTagOnly(state) ==
    IF state.buffer # <<>> /\ ~state.inComponent
    THEN << [type |-> S_text, content |-> decodeXmlEntities(state.buffer),
             attributes |-> Undefined] >>
    ELSE <<>>

\* finalize(state)
finalize(state) ==
    IF state.buffer # <<>>
    THEN << [type |-> S_text, content |-> decodeXmlEntities(state.buffer),
             attributes |-> Undefined] >>
    ELSE <<>>

\* what stands for the result of a call that never returns
NeverReturns == <<>>

\* parseChunk(chunk, state) as a function: the loop run to its end, then the
\* code after it; an iteration that changes nothing repeats for ever
RECURSIVE ScanLoop(_, _, _)
ScanLoop(reg, f, ns) ==
    LET With(r) == IF r.f = f /\ r.ns = ns THEN NeverReturns
                   ELSE ScanLoop(reg, r.f, r.ns)
    IN  IF LoopOver(f) THEN ChunkResult(reg, f, ns)
        ELSE With(ScanIteration(reg, f, ns))

parseChunk(reg, chunk, state) ==
    LET With(ns) == ScanLoop(reg, ChunkLocals(ns.buffer), ns)
    IN  With([state EXCEPT !.buffer = @ \o chunk])

(***************************************************************************)
(* Inputs.  A case is a registry, a text and the set of positions at which *)
(* the caller may end a chunk.  The texts under ShortRegistry are the      *)
(* concatenations of at most MaxPieces pieces and some further texts, cut  *)
(* at any position; the documented examples come with ReadmeRegistry and   *)
(* their documented chunks.                                                *)
(***************************************************************************)
MaxPieces == 3

Pieces ==
    { <<"x">>,
      <<"<">>,
      <<"<","c",">">>,
      <<"<","/","c",">">>,
      <<"<","i",">">> }

RECURSIVE Concatenations(_)
Concatenations(n) ==
    IF n = 0 THEN {<<>>}
    ELSE LET shorter == Concatenations(n - 1)
         IN  shorter \cup {p \o q : p \in shorter, q \in Pieces}

FurtherTexts ==
    { <<"<","c","/",">","x">>,
      <<"<","c"," ","/",">","x","<","/","c",">">>,
      <<"<","c"," ","t","y","p","e","=","\"","i","n","f","o","\""," ","/",">">>,
      <<"<","i"," ","s","r","c","=","\"","a","\"",">","x">>,
      <<"<","c",">","&","l","t",";","<","/","c",">">>,
      <<"x","&","a","m","p",";","l","t",";">>,
      <<"<","c"," ","t","y","p","e","=","\"","i","n","f","o","\"",">","x","<","/","c",">","x">>,
      <<"x","<","f",">","x","<","/","f",">","x">>,
      <<"<","f","/",">">>,
      <<"x","<","i","x",">">>,
      <<"<","F"," ","a","=","\"","b","\"",">","x">>,
      <<"<","c"," ","t","y","p","e","=","\"","b","a","d","\"",">","x","<","/","c",">">>,
      <<"<","i"," ","s","r","c","=","\"","a","\""," ","z","=","\"","1","\"",">">>,
      <<"<","c"," ","<","/","c",">","x","<","/","c",">">>,
      <<"<","b",">"," ","c">>,
      <<"<","x","x","x","x","x","x","x","x","x","x","x","x","x","x","x","x","x","x","x","x">>,
      <<"<","i"," ","s","r","c","=","\"","a","a","a","a","a","a","a","a","a","a","a","a","\"",">">> }

\* texts for the registry with the capital key
CapitalTexts ==
    { <<"<","c"," ","k","=","\"","v","\"",">","x","<","/","C",">">>,
      <<"<","C","/",">">> }

\* a registry without tags and texts for it
EmptyRegistry == <<>>

EmptyRegistryTexts ==
    { <<"<","/",">">>,
      <<"<",">","x","<","/",">">>,
      <<"a","<",">","b","<",">">>,
      <<"<",">","x","<",">","y","<">> }

\* texts fed as one chunk
OneChunkTexts ==
    { <<"<","i",">","x","x","x","x","x","x","x","x","x","x","x","x","x","x","x","x","<">> }

\* the text of the streaming example of the README
StreamingExample ==
    <<"H","e","l","l","o"," ","<","c","a","l","l","o","u","t"," ","t","y","p","e","=","\"","i","n","f","o","\"",">","I","m","p","o","r","t","a","n","t","!","<","/","c","a","l","l","o","u","t",">"," ","W","o","r","l","d">>

\* 'Hello <call' | 'out type="info">Imp' | 'ortant!</callout> World'
StreamingExampleCuts == {11, 30, 53}

AnyCut(reg, text) == [registry |-> reg, text |-> text, cuts |-> 0..Len(text)]

WholeText(reg, text) == [registry |-> reg, text |-> text, cuts |-> {Len(text)}]

Cases ==
    {AnyCut(ShortRegistry, text) : text \in Concatenations(MaxPieces) \cup FurtherTexts}
        \cup {[registry |-> ReadmeRegistry, text |-> StreamingExample,
               cuts |-> StreamingExampleCuts]}
        \cup {AnyCut(CapitalRegistry, text) : text \in CapitalTexts}
        \cup {WholeText(ShortRegistry, text) : text \in OneChunkTexts}
        \cup {AnyCut(EmptyRegistry, text) : text \in EmptyRegistryTexts}

\* texts that differ in the case of tag and attribute names and in the
\* whitespace before the self-close marker, each fed as one chunk
CaseTexts ==
    { <<"<","i"," ","s","r","c","=","\"","a","\"","/",">">>,
      <<"<","I"," ","S","R","C","=","\"","a","\"","/",">">>,
      <<"<","i"," ","s","r","c","=","\"","a","\""," ","/",">">>,
      <<"<","I"," ","s","r","c","=","\"","a","\"",">">>,
      <<"<","c",">","x","<","/","c",">">>,
      <<"<","C",">","x","<","/","c",">">>,
      <<"<","c",">","x","<","/","C",">">>,
      <<"<","c","/",">">>,
      <<"<","C","/",">">> }


\* the texts of two streams that share one parser
SharedTexts ==
    { <<"<","c",">","x","<","/","c",">">>,
      <<"x","<","i",">","x","<">>,
      <<"<","c",">","x">> }

(***************************************************************************)
(* Direct calls.  decodeXmlEntities and parseAttributes are functions of   *)
(* their argument and validateAttributes of the registry and its           *)
(* arguments; a direct call applies one of them to an argument drawn from  *)
(* the sets below.  An entity text is a concatenation of at most           *)
(* MaxEntityPieces pieces; an attribute string is made of at most          *)
(* MaxTokens tokens, each after one space.  A token carries, beside its    *)
(* text, the name before its '=' and its quoted value when it has the form *)
(* name=quoted, and whether that name is made of word characters only.     *)
(***************************************************************************)
MaxEntityPieces == 3

EntityPieces ==
    { <<"&">>,
      <<"a","m","p",";">>,
      <<"l","t",";">>,
      <<"g","t",";">>,
      <<"q","u","o","t",";">>,
      <<"x">>,
      <<"&","#","3","8",";">>,
      <<"&","a","p","o","s",";">> }

RECURSIVE EntityTexts(_)
EntityTexts(n) ==
    IF n = 0 THEN {<<>>}
    ELSE LET shorter == EntityTexts(n - 1)
         IN  shorter \cup {p \o q : p \in shorter, q \in EntityPieces}

MaxTokens == 3

AttrTokens ==
    { [text |-> <<"a","=","\"","1","\"">>, name |-> <<"a">>, value |-> <<"1">>, word |-> TRUE],
      [text |-> <<"a","=","'","2","'">>, name |-> <<"a">>, value |-> <<"2">>, word |-> TRUE],
      [text |-> <<"b","=","\"","&","l","t",";","\"">>, name |-> <<"b">>, value |-> <<"&","l","t",";">>, word |-> TRUE],
      [text |-> <<"A","=","\"","3","\"">>, name |-> <<"A">>, value |-> <<"3">>, word |-> TRUE],
      [text |-> <<"b","=","'","\"","'">>, name |-> <<"b">>, value |-> <<"\"">>, word |-> TRUE],
      [text |-> <<"a","=","\"","\"">>, name |-> <<"a">>, value |-> <<>>, word |-> TRUE],
      [text |-> <<"c">>, name |-> <<>>, value |-> <<>>, word |-> FALSE],
      [text |-> <<"c","=","x">>, name |-> <<>>, value |-> <<>>, word |-> FALSE],
      [text |-> <<"d","a","t","a","-","i","d","=","\"","5","\"">>, name |-> <<"d","a","t","a","-","i","d">>, value |-> <<"5">>, word |-> FALSE],
      [text |-> <<"x","m","l",":","l","a","n","g","=","\"","e","n","\"">>, name |-> <<"x","m","l",":","l","a","n","g">>, value |-> <<"e","n">>, word |-> FALSE] }

RECURSIVE TokenLists(_)
TokenLists(n) ==
    IF n = 0 THEN {<<>>}
    ELSE LET shorter == TokenLists(n - 1)
         IN  shorter \cup {Append(p, q) : p \in shorter, q \in AttrTokens}

\* the attribute string of a token list
RECURSIVE AttrString(_)
AttrString(tokens) ==
    IF tokens = <<>> THEN <<>>
    ELSE <<" ">> \o Head(tokens).text \o AttrString(Tail(tokens))

\* attribute maps handed to validateAttributes
AttrMaps ==
    { {},
      {<<S_type, S_info>>},
      {<<S_type, <<"b","a","d">> >>},
      {<<S_src, <<"a">> >>},
      {<<S_src, <<"a">> >>, <<<<"z">>, <<"1">> >>} }

\* tag names handed to validateAttributes: two of the registry, two not
ValidatedNames == { <<"c">>, <<"i">>, <<"f">>, <<"C">> }

UnitCalls ==
    {[fn |-> "decodeXmlEntities", arg |-> x, tokens |-> <<>>, name |-> <<>>,
      calls |-> 0, out |-> <<>>, again |-> <<>>] : x \in EntityTexts(MaxEntityPieces)}
    \cup
    {[fn |-> "parseAttributes", arg |-> AttrString(l), tokens |-> l, name |-> <<>>,
      calls |-> 0, out |-> <<>>, again |-> <<>>] : l \in TokenLists(MaxTokens)}
    \cup
    {[fn |-> "validateAttributes", arg |-> m, tokens |-> <<>>, name |-> n,
      calls |-> 0, out |-> <<>>, again |-> <<>>] : m \in AttrMaps, n \in ValidatedNames}

(***************************************************************************)
(* The state machine.  One parser (a registry) serves the streams of       *)
(* `streams`.  A caller runs parse on its text, then creates a state and   *)
(* feeds the text chunk by chunk as in the README (state = result.state,   *)
(* allSegments = [...allSegments, ...result.segments]), then finalizes.    *)
(* Calls are synchronous: one call is active at a time and runs to its     *)
(* return before any other call starts.  ParserState objects live in       *)
(* `heap` and are held by reference; an object nothing refers to any more  *)
(* is dropped from the heap.                                               *)
(***************************************************************************)
VARIABLES
    registry,     \* the registry the parser was created with
    streams,      \* the streams that use the parser
    input,        \* input[s]: the whole text of stream s
    cuts,         \* cuts[s]: the positions at which a chunk of s may end
    pos,          \* pos[s]: number of characters of input[s] fed so far
    phase,        \* phase[s]: "new", "parsed", "streaming" or "done"
    parsed,       \* parsed[s]: what parse(input[s]) returned
    stateRef,     \* stateRef[s]: the caller's variable `state`
    out,          \* out[s]: the caller's allSegments
    lastResult,   \* lastResult[s]: what the last parseChunk call returned
    returned,     \* returned[s]: a parseChunk call of s has returned
    finalSegs,    \* finalSegs[s]: what finalize returned
    heldSnap,     \* heldSnap[s]: value of the state object when s received it
    consumedTotal,\* consumedTotal[s]: characters turned into segments or tags
    heap,         \* heap[r]: the ParserState object with reference r
    pc,           \* "idle", "parse" (in parse's loop) or "scan" (in parseChunk's)
    caller,       \* the stream whose call is active, 0 when idle
    chunkArg,     \* the parameter chunk of the active parseChunk call
    frame,        \* the other locals of the active call
    newStateRef,  \* the local newState of the active parseChunk call
    spun,         \* the loop of the active call repeated a state: it never ends
    unit          \* a direct call of one function: its name, argument, result

vars == <<registry, streams, input, cuts, pos, phase, parsed, stateRef, out,
          lastResult, returned, finalSegs, heldSnap, consumedTotal, heap, pc,
          caller, chunkArg, frame, newStateRef, spun, unit>>

NoRef == 0

\* no function is called directly
NoUnit ==
    [fn |-> "none", arg |-> <<>>, tokens |-> <<>>, name |-> <<>>,
     calls |-> 0, out |-> <<>>, again |-> <<>>]

NoFrame == ChunkLocals(<<>>)

NoResult ==
    [segments |-> <<>>, state |-> createState, isBuffering |-> FALSE,
     bufferingTag |-> Null, partialSegment |-> NoPartial, consumed |-> 0]

\* the references the callers and the active call hold
Live(sr, nr) == ({sr[s] : s \in DOMAIN sr} \cup {nr}) \ {NoRef}

\* the heap without the objects nothing refers to
Collect(h, live) == [r \in (DOMAIN h) \cap live |-> h[r]]

\* one object handed out again and again
NewObjectShared(h) == 1

\* the reference of a newly created object
NewObject(h) == MinOf({r \in 1..(Cardinality(DOMAIN h) + 1) : r \notin DOMAIN h})

\* newState = state: the same object
SpreadTargetAlias(h, ref) == ref

\* the object `{ ...state }` evaluates to: a new one
SpreadTarget(h, ref) == NewObject(h)

\* h with the object r set to value
Store(h, r, value) == [x \in (DOMAIN h) \cup {r} |-> IF x = r THEN value ELSE h[x]]

InitWith(n, cases) ==
    /\ streams = 1..n
    /\ \E c \in [1..n -> cases] :
          /\ \A s \in 1..n : c[s].registry = c[1].registry
          /\ registry = c[1].registry
          /\ input = [s \in 1..n |-> c[s].text]
          /\ cuts = [s \in 1..n |-> c[s].cuts]
    /\ pos = [s \in 1..n |-> 0]
    /\ phase = [s \in 1..n |-> "new"]
    /\ parsed = [s \in 1..n |-> <<>>]
    /\ stateRef = [s \in 1..n |-> NoRef]
    /\ out = [s \in 1..n |-> <<>>]
    /\ lastResult = [s \in 1..n |-> NoResult]
    /\ returned = [s \in 1..n |-> FALSE]
    /\ finalSegs = [s \in 1..n |-> <<>>]
    /\ heldSnap = [s \in 1..n |-> createState]
    /\ consumedTotal = [s \in 1..n |-> 0]
    /\ heap = <<>>
    /\ pc = "idle"
    /\ caller = 0
    /\ chunkArg = <<>>
    /\ frame = NoFrame
    /\ newStateRef = NoRef
    /\ spun = FALSE
    /\ unit = NoUnit

Init == InitWith(1, Cases)

InitShared == InitWith(2, {AnyCut(ShortRegistry, text) : text \in SharedTexts})

\* parser.parse(input[s]) is called
ParseCall(s) ==
    /\ pc = "idle"
    /\ phase[s] = "new"
    /\ pc' = "parse"
    /\ caller' = s
    /\ frame' = [NoFrame EXCEPT !.remaining = input[s]]
    /\ UNCHANGED unit
    /\ UNCHANGED <<registry, streams, input, cuts, pos, phase, parsed, stateRef, out,
                   lastResult, returned, finalSegs, heldSnap, consumedTotal, heap,
                   chunkArg, newStateRef, spun>>

\* one iteration of the loop of parse
ParseIter ==
    /\ pc = "parse"
    /\ Len(frame.remaining) > 0
    /\ frame' = ParseIteration(registry, frame)
    /\ UNCHANGED unit
    /\ UNCHANGED <<registry, streams, input, cuts, pos, phase, parsed, stateRef, out,
                   lastResult, returned, finalSegs, heldSnap, consumedTotal, heap,
                   pc, caller, chunkArg, newStateRef, spun>>

\* the loop of parse is over: the last flush and the return
ParseReturn ==
    /\ pc = "parse"
    /\ Len(frame.remaining) = 0
    /\ parsed' = [parsed EXCEPT ![caller] = addTextSegment(frame.segments, frame.textBuffer)]
    /\ phase' = [phase EXCEPT ![caller] = "parsed"]
    /\ pc' = "idle"
    /\ caller' = 0
    /\ frame' = NoFrame
    /\ UNCHANGED unit
    /\ UNCHANGED <<registry, streams, input, cuts, pos, stateRef, out, lastResult,
                   returned, finalSegs, heldSnap, consumedTotal, heap, chunkArg,
                   newStateRef, spun>>

\* state = parser.createState()
CreateState(s) ==
    /\ pc = "idle"
    /\ phase[s] = "parsed"
    /\ LET r == NewObject(heap)
       IN  /\ heap' = Store(heap, r, createState)
           /\ stateRef' = [stateRef EXCEPT ![s] = r]
    /\ heldSnap' = [heldSnap EXCEPT ![s] = createState]
    /\ phase' = [phase EXCEPT ![s] = "streaming"]
    /\ UNCHANGED unit
    /\ UNCHANGED <<registry, streams, input, cuts, pos, parsed, out, lastResult,
                   returned, finalSegs, consumedTotal, pc, caller, chunkArg, frame,
                   newStateRef, spun>>

\* parser.parseChunk(chunk, state) is called with the next k characters:
\* newState = { ...state }; newState.buffer += chunk; the declarations
ParseChunkCall(s, k) ==
    /\ pc = "idle"
    /\ phase[s] = "streaming"
    /\ k \in 0..(Len(input[s]) - pos[s])
    /\ pos[s] + k \in cuts[s]
    /\ chunkArg' = Slice(input[s], pos[s], pos[s] + k)
    /\ newStateRef' = SpreadTarget(heap, stateRef[s])
    /\ heap' = Store(heap, newStateRef',
                     [heap[stateRef[s]] EXCEPT !.buffer = @ \o chunkArg'])
    /\ frame' = ChunkLocals(heap'[newStateRef'].buffer)
    /\ pos' = [pos EXCEPT ![s] = pos[s] + k]
    /\ pc' = "scan"
    /\ caller' = s
    /\ UNCHANGED unit
    /\ UNCHANGED <<registry, streams, input, cuts, phase, parsed, stateRef, out,
                   lastResult, returned, finalSegs, heldSnap, consumedTotal, spun>>

\* one iteration of the loop of parseChunk.  An iteration that leaves the
\* locals and newState as they were, without leaving the loop, will do so
\* for ever: spun records it and no further step of the call is taken.
ScanIter ==
    /\ pc = "scan"
    /\ ~LoopOver(frame)
    /\ ~spun
    /\ \E r \in {ScanIteration(registry, frame, heap[newStateRef])} :
          /\ frame' = r.f
          /\ heap' = Store(heap, newStateRef, r.ns)
          /\ spun' = (r.f = frame /\ r.ns = heap[newStateRef])
    /\ UNCHANGED unit
    /\ UNCHANGED <<registry, streams, input, cuts, pos, phase, parsed, stateRef, out,
                   lastResult, returned, finalSegs, heldSnap, consumedTotal, pc,
                   caller, chunkArg, newStateRef>>

\* the loop of parseChunk is over: the result is built and returned, and the
\* caller keeps result.state and appends result.segments
ParseChunkReturn ==
    /\ pc = "scan"
    /\ LoopOver(frame)
    /\ \E res \in {ChunkResult(registry, frame, heap[newStateRef])} :
          /\ stateRef' = [stateRef EXCEPT ![caller] = newStateRef]
          /\ heap' = Collect(Store(heap, newStateRef, res.state), Live(stateRef', NoRef))
          /\ lastResult' = [lastResult EXCEPT ![caller] = res]
          /\ heldSnap' = [heldSnap EXCEPT ![caller] = res.state]
          /\ out' = [out EXCEPT ![caller] = out[caller] \o res.segments]
          /\ consumedTotal' = [consumedTotal EXCEPT ![caller] = @ + res.consumed]
    /\ returned' = [returned EXCEPT ![caller] = TRUE]
    /\ newStateRef' = NoRef
    /\ chunkArg' = <<>>
    /\ frame' = NoFrame
    /\ pc' = "idle"
    /\ caller' = 0
    /\ UNCHANGED unit
    /\ UNCHANGED <<registry, streams, input, cuts, pos, phase, parsed, finalSegs, spun>>

\* parser.finalize(state); the caller appends what it returns
Finalize(s) ==
    /\ pc = "idle"
    /\ phase[s] = "streaming"
    /\ finalSegs' = [finalSegs EXCEPT ![s] = finalize(heap[stateRef[s]])]
    /\ out' = [out EXCEPT ![s] = out[s] \o finalSegs'[s]]
    /\ phase' = [phase EXCEPT ![s] = "done"]
    /\ UNCHANGED unit
    /\ UNCHANGED <<registry, streams, input, cuts, pos, parsed, stateRef, lastResult,
                   returned, heldSnap, consumedTotal, heap, pc, caller, chunkArg,
                   frame, newStateRef, spun>>

Next ==
    \/ \E s \in streams : ParseCall(s)
    \/ ParseIter
    \/ ParseReturn
    \/ \E s \in streams : CreateState(s)
    \/ \E s \in streams : \E k \in 0..Len(input[s]) : ParseChunkCall(s, k)
    \/ ScanIter
    \/ ParseChunkReturn
    \/ \E s \in streams : Finalize(s)

\* two texts on one parser, to be compared
InitCase == InitWith(2, {WholeText(ShortRegistry, text) : text \in CaseTexts})

\* a parser without streams and one direct call
InitUnit ==
    /\ streams = {}
    /\ registry = ShortRegistry
    /\ input = <<>>
    /\ cuts = <<>>
    /\ pos = <<>>
    /\ phase = <<>>
    /\ parsed = <<>>
    /\ stateRef = <<>>
    /\ out = <<>>
    /\ lastResult = <<>>
    /\ returned = <<>>
    /\ finalSegs = <<>>
    /\ heldSnap = <<>>
    /\ consumedTotal = <<>>
    /\ heap = <<>>
    /\ pc = "idle"
    /\ caller = 0
    /\ chunkArg = <<>>
    /\ frame = NoFrame
    /\ newStateRef = NoRef
    /\ spun = FALSE
    /\ unit \in UnitCalls

UnitFrame ==
    UNCHANGED <<registry, streams, input, cuts, pos, phase, parsed, stateRef, out,
                lastResult, returned, finalSegs, heldSnap, consumedTotal, heap, pc,
                caller, chunkArg, frame, newStateRef, spun>>

\* decodeXmlEntities(arg)
DecodeCall ==
    /\ unit.fn = "decodeXmlEntities"
    /\ unit.calls = 0
    /\ unit' = [unit EXCEPT !.out = decodeXmlEntities(unit.arg), !.calls = 1]
    /\ UnitFrame

\* decodeXmlEntities applied to what the first call returned
DecodeAgain ==
    /\ unit.fn = "decodeXmlEntities"
    /\ unit.calls = 1
    /\ unit' = [unit EXCEPT !.again = decodeXmlEntities(unit.out), !.calls = 2]
    /\ UnitFrame

\* parseAttributes(arg)
ParseAttributesCall ==
    /\ unit.fn = "parseAttributes"
    /\ unit.calls = 0
    /\ unit' = [unit EXCEPT !.out = parseAttributes(unit.arg), !.calls = 1]
    /\ UnitFrame

\* registry.validateAttributes(name, arg)
ValidateCall ==
    /\ unit.fn = "validateAttributes"
    /\ unit.calls = 0
    /\ unit' = [unit EXCEPT !.out = validateAttributes(registry, unit.name, unit.arg),
                            !.calls = 1]
    /\ UnitFrame

NextUnit ==
    \/ DecodeCall
    \/ DecodeAgain
    \/ ParseAttributesCall
    \/ ValidateCall

\* one stream
Spec == Init /\ [][Next]_vars

\* direct calls of the functions
SpecUnit == InitUnit /\ [][NextUnit]_vars

\* two streams whose texts differ by case
SpecCase == InitCase /\ [][Next]_vars

\* two streams on one parser
SpecShared == InitShared /\ [][Next]_vars

(***************************************************************************)
(* Properties                                                              *)
(***************************************************************************)
\* the stream of the active call, in a step that starts, continues or ends one
Active == IF caller # 0 THEN caller ELSE caller'

\* a step of parseChunk: its call, an iteration of its loop, or its return
ChunkStep == pc = "scan" \/ pc' = "scan"

ChunkIterStep == pc = "scan" /\ pc' = "scan"

ChunkReturnStep == pc = "scan" /\ pc' = "idle"

FinalizeStep == \E s \in streams : phase[s] = "streaming" /\ phase'[s] = "done"

\* stream s has fed its whole text and finalized
Finished(s) == phase[s] = "done" /\ pos[s] = Len(input[s])

\* the names the opening tag pattern matches: those of the registry, and
\* the empty name when the registry has none
PatternNames == Alternatives(TagNames(registry))

\* every tag name of the opening tag pattern has at least one character
TagsHaveNames == \A a \in 1..Len(PatternNames) : PatternNames[a] # <<>>

\* C1: chunk-invariance.  For every text and every cut into chunks, the
\* segments returned by the parseChunk calls followed by those of finalize
\* are the segments of parse on the whole text.
ChunkInvariance ==
    \A s \in streams : Finished(s) => out[s] = parsed[s]

\* C2: parseChunk terminates.  Every iteration of its scan loop strictly
\* shortens the unconsumed text or leaves the loop.
ScanShortensOrLeaves ==
    [][ChunkIterStep =>
          (Len(frame'.remaining) < Len(frame.remaining) \/ LoopOver(frame'))]_vars

\* C3: in every state object reachable from createState() by parseChunk
\* calls, currentTag is non-null exactly when inComponent is true, and
\* currentAttrs is empty when inComponent is false.
CurrentTagIffInComponent ==
    \A s \in streams :
        stateRef[s] # NoRef =>
            /\ (heap[stateRef[s]].currentTag # Null) <=> heap[stateRef[s]].inComponent
            /\ ~heap[stateRef[s]].inComponent => heap[stateRef[s]].currentAttrs = <<>>

\* a call has returned a state that left an open tag which had attributes
ClosedTagWithAttrs ==
    \E s \in streams :
        /\ returned[s]
        /\ ~heap[stateRef[s]].inComponent
        /\ \E i \in 1..Len(out[s]) : out[s][i].attributes.map # {}

\* C4: parseChunk and finalize never modify the state object passed to
\* them; the state parseChunk returns is another object; and the call made
\* again on the passed object as it is at the return gives the same result.
ArgumentStateUntouched ==
    [][/\ ChunkStep =>
            /\ stateRef[Active] \in DOMAIN heap' =>
                   heap'[stateRef[Active]] = heap[stateRef[Active]]
            /\ newStateRef' # NoRef => newStateRef' # stateRef[Active]
       /\ ChunkReturnStep =>
            /\ stateRef'[caller] # stateRef[caller]
            /\ lastResult'[caller] =
                   parseChunk(registry, chunkArg, heap[stateRef[caller]])
       /\ FinalizeStep => heap' = heap /\ stateRef' = stateRef]_vars

\* a call in progress has written to its copy of the state of a stream that
\* holds a non-empty buffer
CopyWritten ==
    /\ pc = "scan"
    /\ heap[stateRef[caller]].buffer # <<>>
    /\ heap[newStateRef] # heap[stateRef[caller]]

\* C5: streams that share one parser are independent.  The state a stream
\* holds is changed by no call of another stream, and every result is the
\* function of the chunk and of the state the stream held, whatever other
\* calls were made in between.
StreamIndependence ==
    /\ [](\A s \in streams :
              stateRef[s] # NoRef => heap[stateRef[s]] = heldSnap[s])
    /\ [][/\ ChunkStep =>
               \A s \in streams \ {Active} :
                   /\ out'[s] = out[s]
                   /\ lastResult'[s] = lastResult[s]
                   /\ stateRef'[s] = stateRef[s]
          /\ ChunkReturnStep =>
               lastResult'[caller] =
                   parseChunk(registry, chunkArg, heldSnap[caller])
          /\ \A s \in streams :
               phase[s] = "streaming" /\ phase'[s] = "done" =>
                   finalSegs'[s] = finalize(heldSnap[s])]_vars

\* stream 1 is inside an open tag while a call of stream 2, which has
\* already had one returned, is in progress
InterleavedStreams ==
    /\ Cardinality(streams) = 2
    /\ returned[1] /\ returned[2]
    /\ phase[1] = "streaming"
    /\ heap[stateRef[1]].inComponent
    /\ pc = "scan" /\ caller = 2
    /\ frame.segments # <<>>

\* C6: finalize is total and returns no segment when the buffer is empty and
\* otherwise one text segment holding the entity-decoded buffer, inside an
\* open tag or not.
FinalizeFlushesBuffer ==
    \A s \in streams :
        phase[s] = "done" =>
            IF heap[stateRef[s]].buffer = <<>>
            THEN finalSegs[s] = <<>>
            ELSE /\ Len(finalSegs[s]) = 1
                 /\ finalSegs[s][1].type = S_text
                 /\ finalSegs[s][1].content =
                        decodeXmlEntities(heap[stateRef[s]].buffer)
                 /\ ~finalSegs[s][1].attributes.defined

\* a stream was finalized inside an open tag whose body so far holds an
\* entity
FinalizedInsideTag ==
    \E s \in streams :
        /\ phase[s] = "done"
        /\ heap[stateRef[s]].inComponent
        /\ heap[stateRef[s]].buffer # <<>>
        /\ finalSegs[s][1].content # heap[stateRef[s]].buffer

ExampleSegments ==
    << TextSegment(<<"H","e","l","l","o"," ">>),
       [type |-> S_callout, content |-> <<"I","m","p","o","r","t","a","n","t","!">>,
        attributes |-> Defined({<<S_type, S_info>>})],
       TextSegment(<<" ","W","o","r","l","d">>) >>

IsExample(s) == input[s] = StreamingExample /\ registry = ReadmeRegistry

\* C8: the streaming example.  Fed as 'Hello <call', 'out type="info">Imp',
\* 'ortant!</callout> World' and finalized, the parser returns from every
\* call, the partial tag of the first chunk is held in the buffer after the
\* text before it is emitted, the second call reports buffering of callout,
\* and the segments are text 'Hello ', callout 'Important!' with type info,
\* text ' World'.
StreamingExampleHolds ==
    \A s \in streams :
        IsExample(s) =>
            /\ ~spun
            /\ (pc = "idle" /\ pos[s] = 11) =>
                   /\ out[s] = << ExampleSegments[1] >>
                   /\ heap[stateRef[s]].buffer = <<"<","c","a","l","l">>
            /\ (pc = "idle" /\ pos[s] = 30) =>
                   /\ lastResult[s].isBuffering
                   /\ lastResult[s].bufferingTag = S_callout
            /\ Finished(s) => out[s] = ExampleSegments

\* the registry has a definition under exactly this name that is selfClosing
DeclaredSelfClosing(name) ==
    \E a \in 1..Len(registry) : registry[a].name = name /\ registry[a].selfClosing

\* the first opening tag of the registry in the text
HeadTag(text) == MatchOpeningTag(TagNames(registry), text)

\* the iteration of parse or of parseChunk applied to an opening tag at the
\* head of the unconsumed text outside any open tag, and not put off
HeadTagStep ==
    /\ \/ pc = "parse" /\ pc' = "parse"
       \/ ChunkIterStep /\ ~heap[newStateRef].inComponent /\ ~frame'.broke
    /\ HeadTag(frame.remaining).found
    /\ HeadTag(frame.remaining).index = 0

\* the step emitted the head tag as a segment without content, went on
\* after the tag and opened no tag
ZeroContentEmitted ==
    /\ Len(frame'.segments) > Len(frame.segments)
    /\ frame'.segments[Len(frame'.segments)].type =
           ToLowerCase(HeadTag(frame.remaining).name)
    /\ frame'.segments[Len(frame'.segments)].content = <<>>
    /\ frame'.remaining =
           SliceFrom(frame.remaining, Len(HeadTag(frame.remaining).text))
    /\ pc = "scan" => ~heap'[newStateRef].inComponent

\* C9: an opening tag that ends in '/>' is self-closing even when the
\* registry says its tag bears content, whatever attributes or whitespace
\* stand before the marker.
MarkerPrecedence ==
    [][(HeadTagStep /\ EndsWith(HeadTag(frame.remaining).text, <<"/", ">">>))
          => ZeroContentEmitted]_vars

RECURSIVE FoldNames(_, _, _)
FoldNames(text, inTag, q) ==
    IF text = <<>> THEN <<>>
    ELSE LET c == Head(text)
             rest == Tail(text)
         IN  IF q # "" THEN <<c>> \o FoldNames(rest, inTag, IF c = q THEN "" ELSE q)
             ELSE IF ~inTag THEN <<c>> \o FoldNames(rest, c = "<", "")
             ELSE IF c = ">" THEN <<c>> \o FoldNames(rest, FALSE, "")
             ELSE IF c \in {"\"", "'"} THEN <<c>> \o FoldNames(rest, TRUE, c)
             ELSE IF IsSpace(c) /\ Len(rest) >= 2 /\ rest[1] = "/" /\ rest[2] = ">"
                  THEN FoldNames(rest, TRUE, "")
             ELSE <<LowerChar(c)>> \o FoldNames(rest, TRUE, "")

SameButCase(a, b) == FoldNames(a, FALSE, "") = FoldNames(b, FALSE, "")

\* C11: case insensitivity.  Two texts that differ only in the letter case
\* of registered tag names and of attribute names, and in whitespace before
\* '/>', give the same segments from parse and from the streamed run.
CaseInsensitive ==
    \A s \in streams : \A u \in streams :
        SameButCase(input[s], input[u]) =>
            /\ (phase[s] # "new" /\ phase[u] # "new") => parsed[s] = parsed[u]
            /\ (Finished(s) /\ Finished(u)) => out[s] = out[u]

\* the name of the tag-like construct whose '<' is at 1-based index i: the
\* characters after '<' and an optional '/', up to whitespace, '/', '<',
\* '>' or the end
TagLikeName(text, i) ==
    LET from == IF i < Len(text) /\ text[i + 1] = "/" THEN i + 1 ELSE i
        stops == {k \in (from + 1)..Len(text) :
                     IsSpace(text[k]) \/ text[k] \in {"/", "<", ">"}}
    IN  Slice(text, from, IF stops = {} THEN Len(text) ELSE MinOf(stops) - 1)

\* no tag-like construct of the text uses a name of the pattern
OnlyUnknownTags(text) ==
    \A i \in 1..Len(text) :
        text[i] = "<" =>
            \A a \in 1..Len(PatternNames) :
                ToLowerCase(TagLikeName(text, i)) # ToLowerCase(PatternNames[a])

EntityFree(text) == \A i \in 1..Len(text) : text[i] # "&"

\* the one text segment that holds the text as it is
Verbatim(text) == << [type |-> S_text, content |-> text, attributes |-> Undefined] >>

\* C12 as stated: for a text whose tag-like constructs all use unregistered
\* names parse emits no tag segment, and when the text is entity-free
\* exactly one text segment holding the whole text.
UnknownTagsOneSegment ==
    \A s \in streams :
        (phase[s] # "new" /\ OnlyUnknownTags(input[s])) =>
            /\ \A i \in 1..Len(parsed[s]) : parsed[s][i].type = S_text
            /\ EntityFree(input[s]) => parsed[s] = Verbatim(input[s])

\* C12, amended: for a text whose tag-like constructs all use unregistered
\* names parse emits no tag segment; when the text is entity-free and not
\* empty it emits exactly one text segment holding the whole text, and for
\* the empty text no segment.
UnknownTagsPassThrough ==
    \A s \in streams :
        (phase[s] # "new" /\ OnlyUnknownTags(input[s])) =>
            /\ \A i \in 1..Len(parsed[s]) : parsed[s][i].type = S_text
            /\ EntityFree(input[s]) =>
                   parsed[s] = IF input[s] = <<>> THEN <<>> ELSE Verbatim(input[s])

\* parse has returned on a text with an opening, a closing and no
\* registered tag
UnknownTagParsed ==
    \E s \in streams :
        /\ phase[s] # "new"
        /\ OnlyUnknownTags(input[s])
        /\ \E i \in 1..Len(input[s]) : input[s][i] = ">"
        /\ \E i \in 1..(Len(input[s]) - 1) : input[s][i] = "<" /\ input[s][i + 1] = "/"
        /\ Len(parsed[s]) = 1

\* the text holds no closing tag of the name, in any letter case
NoClosingTag(tagName, text) ==
    \A i \in 0..Len(text) : ~OccursAtCI(text, ClosingTagText(tagName), i)

\* the unconsumed text of parse starts with a content-bearing opening tag
\* that has no closing tag after it
UnclosedHead ==
    /\ pc = "parse"
    /\ HeadTag(frame.remaining).found
    /\ HeadTag(frame.remaining).index = 0
    /\ ~HeadTag(frame.remaining).slash
    /\ ~DeclaredSelfClosing(ToLowerCase(HeadTag(frame.remaining).name))
    /\ NoClosingTag(HeadTag(frame.remaining).name, frame.remaining)

\* the only '<' of the text opens a content-bearing tag that is never closed
OnlyUnclosedTag(text) ==
    /\ Cardinality({i \in 1..Len(text) : text[i] = "<"}) = 1
    /\ HeadTag(text).found
    /\ ~HeadTag(text).slash
    /\ ~DeclaredSelfClosing(ToLowerCase(HeadTag(text).name))

EntityAtHead(text) ==
    IF OccursAt(text, <<"&","l","t",";">>, 0) THEN [len |-> 4, char |-> "<"]
    ELSE IF OccursAt(text, <<"&","g","t",";">>, 0) THEN [len |-> 4, char |-> ">"]
    ELSE IF OccursAt(text, <<"&","a","m","p",";">>, 0) THEN [len |-> 5, char |-> "&"]
    ELSE IF OccursAt(text, <<"&","q","u","o","t",";">>, 0) THEN [len |-> 6, char |-> "\""]
    ELSE [len |-> 0, char |-> ""]

\* one pass from left to right: an entity of the text becomes its
\* character, any other character stays, and nothing written is read again
RECURSIVE DecodedOnce(_)
DecodedOnce(text) ==
    IF text = <<>> THEN <<>>
    ELSE IF EntityAtHead(text).len > 0
    THEN <<EntityAtHead(text).char>> \o DecodedOnce(SliceFrom(text, EntityAtHead(text).len))
    ELSE <<Head(text)>> \o DecodedOnce(Tail(text))

\* C14: entity decoding is one non-recursive pass from left to right.
\* decodeXmlEntities returns its argument with each &lt; &gt; &amp; &quot;
\* of the argument replaced and every other character unchanged, and what
\* decoding &amp; wrote is not decoded again.
DecodeIsOnePass ==
    (unit.fn = "decodeXmlEntities" /\ unit.calls >= 1) =>
        unit.out = DecodedOnce(unit.arg)

\* no '&' of the text is followed by one of the four entity names
NoEntityName(text) ==
    \A i \in 0..(Len(text) - 1) :
        /\ ~OccursAt(text, <<"&","l","t">>, i)
        /\ ~OccursAt(text, <<"&","g","t">>, i)
        /\ ~OccursAt(text, <<"&","a","m","p">>, i)
        /\ ~OccursAt(text, <<"&","q","u","o","t">>, i)

\* C15: decoding is idempotent on a text in which no '&' is followed by one
\* of the four entity names: decode(decode(x)) = decode(x).
DecodeIdempotent ==
    (unit.fn = "decodeXmlEntities" /\ unit.calls = 2 /\ NoEntityName(unit.arg)) =>
        unit.again = unit.out

\* a text with '&', with a numeric reference and without entity name was
\* decoded twice
DecodedTwice ==
    /\ unit.fn = "decodeXmlEntities"
    /\ unit.calls = 2
    /\ NoEntityName(unit.arg)
    /\ OccursAt(unit.arg, <<"&","#","3","8",";","l","t",";">>, 0)

\* the tokens of the call that have the form name=quoted
QuotedTokens == {k \in 1..Len(unit.tokens) : unit.tokens[k].name # <<>>}

\* every name=quoted token of the call has a name of word characters
WordNamesOnly == \A k \in QuotedTokens : unit.tokens[k].word

\* the last name=quoted token with the name
LastWith(name) == MaxOf({k \in QuotedTokens : unit.tokens[k].name = name})

\* C16: parseAttributes returns a map with one entry per key of the
\* well-formed key="value" and key='value' pairs of the string, the value
\* being the decoded value of the last pair with that key; the empty string
\* gives the empty map.  The strings are those whose name=quoted tokens
\* have names of word characters.
LastPairWins ==
    (unit.fn = "parseAttributes" /\ unit.calls = 1 /\ WordNamesOnly) =>
        /\ unit.arg = <<>> => unit.out = {}
        /\ \A kv \in unit.out : \A lm \in unit.out : kv[1] = lm[1] => kv = lm
        /\ {kv[1] : kv \in unit.out} = {unit.tokens[k].name : k \in QuotedTokens}
        /\ \A kv \in unit.out :
               kv[2] = decodeXmlEntities(unit.tokens[LastWith(kv[1])].value)

\* parseAttributes was called on a string in which a key comes twice with
\* different values in the two quote styles, and an entity in a value
KeyTwice ==
    /\ unit.fn = "parseAttributes"
    /\ unit.calls = 1
    /\ WordNamesOnly
    /\ \E k \in QuotedTokens : \E l \in QuotedTokens :
          /\ k < l
          /\ unit.tokens[k].name = unit.tokens[l].name
          /\ unit.tokens[k].value # unit.tokens[l].value
          /\ unit.tokens[l].value # decodeXmlEntities(unit.tokens[l].value)
    /\ \E k \in 1..Len(unit.tokens) : unit.tokens[k].name = <<>>

\* C17: malformed attribute syntax gives no partial key.  Every key of the
\* map parseAttributes returns is the complete name of a name=quoted token
\* of the string; a part of a longer name is never a key.
NoFragmentKeys ==
    (unit.fn = "parseAttributes" /\ unit.calls = 1) =>
        \A kv \in unit.out : \E k \in QuotedTokens : unit.tokens[k].name = kv[1]

\* a step of parse or of parseChunk that emitted a tag segment
TagEmitted ==
    /\ pc \in {"parse", "scan"}
    /\ pc' = pc
    /\ Len(frame'.segments) > Len(frame.segments)
    /\ frame'.segments[Len(frame'.segments)].type # S_text

\* the step closed the tag that an earlier parseChunk call had opened
ClosedOpenTag == pc = "scan" /\ heap[newStateRef].inComponent

\* the name, the attribute string and the body of the tag the step emitted
EmittedName ==
    IF ClosedOpenTag THEN heap[newStateRef].currentTag
    ELSE ToLowerCase(HeadTag(frame.remaining).name)

EmittedAttrString ==
    IF ClosedOpenTag THEN heap[newStateRef].currentAttrs
    ELSE HeadTag(frame.remaining).attrs

EmittedBody ==
    IF ClosedOpenTag
    THEN Slice(frame.remaining, 0, MatchClosingTag(EmittedName, frame.remaining))
    ELSE IF HeadTag(frame.remaining).slash \/ DeclaredSelfClosing(EmittedName)
    THEN <<>>
    ELSE Slice(frame.remaining, Len(HeadTag(frame.remaining).text),
               MatchClosingTag(EmittedName, frame.remaining))

\* the validator's verdict on the raw attributes of the emitted tag
EmittedVerdict ==
    validateAttributes(registry, EmittedName, parseAttributes(EmittedAttrString))

\* C18: a failed attribute validation is not fatal.  Whenever parse or
\* parseChunk emits a tag segment it has the recognized type and the decoded
\* content; its attributes are the validator's data when the validation
\* succeeds and the raw parsed map when it fails, by rejection of the schema
\* or because the registry has no definition under the name.
ValidationFailureKeepsRaw ==
    [][TagEmitted =>
          /\ frame'.segments[Len(frame'.segments)].type = EmittedName
          /\ frame'.segments[Len(frame'.segments)].content =
                 decodeXmlEntities(EmittedBody)
          /\ frame'.segments[Len(frame'.segments)].attributes.defined
          /\ frame'.segments[Len(frame'.segments)].attributes.map =
                 IF EmittedVerdict.success THEN EmittedVerdict.data
                 ELSE parseAttributes(EmittedAttrString)]_vars

\* a parseChunk call emitted a tag whose attributes the schema rejects,
\* with the raw map
RejectedEmitted ==
    /\ pc = "scan"
    /\ frame.segments # <<>>
    /\ frame.segments[Len(frame.segments)].type = <<"c">>
    /\ frame.segments[Len(frame.segments)].attributes.map =
           {<<S_type, <<"b", "a", "d">> >>}

\* every segment the parser has handed out or holds in a call
AllSegments ==
    UNION {{parsed[s][i] : i \in 1..Len(parsed[s])}
           \cup {out[s][i] : i \in 1..Len(out[s])}
           \cup {finalSegs[s][i] : i \in 1..Len(finalSegs[s])}
           \cup {lastResult[s].segments[i] : i \in 1..Len(lastResult[s].segments)}
              : s \in streams}
        \cup {frame.segments[i] : i \in 1..Len(frame.segments)}

\* C19: segment shape.  Every segment of parse, parseChunk or finalize of
\* type 'text' has attributes undefined, and every segment of a tag type
\* has attributes defined, be it an empty map.
SegmentShape ==
    \A seg \in AllSegments : (seg.type = S_text) <=> ~seg.attributes.defined

\* a stream ended with a tag segment with an empty map from parseChunk and
\* a text segment from finalize, after parse had returned a text segment
AllKindsOfSegments ==
    \E s \in streams :
        /\ Finished(s)
        /\ finalSegs[s] # <<>>
        /\ \E i \in 1..Len(parsed[s]) : parsed[s][i].type = S_text
        /\ \E i \in 1..Len(out[s]) :
              out[s][i].type # S_text /\ out[s][i].attributes.map = {}

\* C20: in every parseChunk result isBuffering is true exactly when the
\* returned state is inside an open tag or has a non-empty buffer; so when
\* it is false finalize on the returned state returns no segment.
IsBufferingIffHolding ==
    \A s \in streams :
        returned[s] =>
            /\ lastResult[s].isBuffering <=>
                   (lastResult[s].state.inComponent \/ lastResult[s].state.buffer # <<>>)
            /\ (phase[s] = "done" /\ ~lastResult[s].isBuffering) => finalSegs[s] = <<>>

\* a stream was finalized after a call that emitted segments and reported
\* that nothing was held
FinalizedAfterNothingHeld ==
    \E s \in streams :
        /\ phase[s] = "done"
        /\ returned[s]
        /\ ~lastResult[s].isBuffering
        /\ lastResult[s].segments # <<>>

\* the fields of a completed segment
SegmentFields == {"type", "content", "attributes"}

FirstAt(text, p, from) ==
    LET With(I) == IF I = {} THEN -1 ELSE MinOf(I)
    IN  With({i \in from..(Len(text) - Len(p)) : OccursAtCI(text, p, i)})

\* the segments from the k-th on have sources in text at or after from, one
\* after the other and without overlap: a text segment its content, a tag
\* segment '<' and its name and later its content
RECURSIVE SourcesInOrder(_, _, _, _)
SourcesInOrder(segs, k, text, from) ==
    LET Body(j) ==
            /\ j # -1
            /\ SourcesInOrder(segs, k + 1, text, j + Len(segs[k].content))
        Tag(i) ==
            /\ i # -1
            /\ Body(FirstAt(text, segs[k].content, i + 1 + Len(segs[k].type)))
    IN  IF k > Len(segs) THEN TRUE
        ELSE IF segs[k].type = S_text
        THEN Body(FirstAt(text, segs[k].content, from))
        ELSE Tag(FirstAt(text, <<"<">> \o segs[k].type, from))

\* C22: every parseChunk call returns only segments completed during that
\* call.  The segments the calls and finalize returned so far have their
\* sources one after the other, without overlap, in the text fed so far:
\* no character is emitted twice.  Stated for a registry whose tags have
\* names.
NoCharacterEmittedTwice ==
    \A s \in streams :
        (TagsHaveNames /\ EntityFree(input[s])) =>
            SourcesInOrder(out[s], 1, Slice(input[s], 0, pos[s]), 0)

\* a stream got a text segment from a call and, from other characters of
\* its text, one with the same content from finalize
EmittedByCallAndFinalize ==
    \E s \in streams :
        /\ Finished(s)
        /\ EntityFree(input[s])
        /\ finalSegs[s] # <<>>
        /\ Len(out[s]) = 2
        /\ out[s][1] = out[s][2]

\* C23: order preservation in parse.  The segments of parse come from
\* disjoint ranges of the text, in increasing order of their start: at
\* every point of the loop the segments made so far, with the text
\* gathered after them, have their sources one after the other in the
\* text consumed so far, and so have the segments returned in the text.
ParseKeepsOrder ==
    /\ (pc = "parse" /\ EntityFree(input[caller])) =>
           SourcesInOrder(addTextSegment(frame.segments, frame.textBuffer), 1,
               Slice(input[caller], 0, Len(input[caller]) - Len(frame.remaining)), 0)
    /\ \A s \in streams :
           (phase[s] # "new" /\ EntityFree(input[s])) =>
               SourcesInOrder(parsed[s], 1, input[s], 0)

\* parse returned text, a tag and text again
TextTagText ==
    \E s \in streams :
        /\ phase[s] # "new"
        /\ EntityFree(input[s])
        /\ Len(parsed[s]) = 3
        /\ parsed[s][1].type = S_text
        /\ parsed[s][2].type # S_text
        /\ parsed[s][3].type = S_text

\* the head tag bears content: it has no self-close marker and its name is
\* not declared selfClosing
HeadBearsContent ==
    /\ ~EndsWith(HeadTag(frame.remaining).text, <<"/", ">">>)
    /\ ~DeclaredSelfClosing(ToLowerCase(HeadTag(frame.remaining).name))

\* where the first closing tag of the head tag starts after the opening
\* tag, -1 when there is none
ClosingAfterHead ==
    FirstAt(frame.remaining,
            ClosingTagText(ToLowerCase(HeadTag(frame.remaining).name)),
            Len(HeadTag(frame.remaining).text))

\* C24: tag content.  For a content-bearing opening tag at the head of the
\* unconsumed text with a closing tag after it, parse emits a tag segment
\* whose content is the entity-decoded text between the end of the opening
\* tag and the first closing tag after it, whatever tags stand in that
\* text, and goes on right after the closing tag.
TagContentBetween ==
    [][(/\ pc = "parse" /\ pc' = "parse"
        /\ HeadTagStep
        /\ HeadBearsContent
        /\ ClosingAfterHead # -1)
          => /\ Len(frame'.segments) > Len(frame.segments)
             /\ frame'.segments[Len(frame'.segments)].type =
                    ToLowerCase(HeadTag(frame.remaining).name)
             /\ frame'.segments[Len(frame'.segments)].content =
                    decodeXmlEntities(Slice(frame.remaining,
                        Len(HeadTag(frame.remaining).text), ClosingAfterHead))
             /\ frame'.remaining =
                    SliceFrom(frame.remaining,
                        ClosingAfterHead + Len(HeadTag(frame.remaining).name) + 3)]_vars

\* C25: parse terminates.  Every iteration of its loop strictly shortens
\* the remaining text, also on malformed, unknown or never-closed markup,
\* and the loop ends when nothing remains.
ParseShortens ==
    [][(pc = "parse" /\ pc' = "parse") =>
          Len(frame'.remaining) < Len(frame.remaining)]_vars

\* parse has passed an opening tag that has no closing tag and has text
\* left to scan
UnclosedTagPassed ==
    /\ pc = "parse"
    /\ HeadTag(frame.textBuffer).found
    /\ Len(frame.remaining) > 0

\* the contents of the segments, one after the other
RECURSIVE ContentsOf(_)
ContentsOf(segs) ==
    IF segs = <<>> THEN <<>> ELSE Head(segs).content \o ContentsOf(Tail(segs))

\* C26: an unclosed tag falls back to text in streaming and no input is
\* lost.  For an entity-free text whose only tag is a content-bearing
\* opening tag without closing tag, and every cut into chunks, the contents
\* of the segments of the calls and of finalize, in order, make up the
\* text, the opening tag included.
UnclosedTagKeptInStream ==
    \A s \in streams :
        (Finished(s) /\ EntityFree(input[s]) /\ OnlyUnclosedTag(input[s])) =>
            ContentsOf(out[s]) = input[s]

\* an iteration of parseChunk's loop made inside an open tag
InTagStep ==
    /\ ChunkIterStep
    /\ heap[newStateRef].inComponent
    /\ Truthy(heap[newStateRef].currentTag)

\* where the first closing tag of the tag open in state starts in text, -1
\* when there is none
ClosingOf(state, text) == FirstAt(text, ClosingTagText(state.currentTag), 0)

\* the segment of the tag open in state with the body before index close
ClosedSegment(state, text, close) ==
    [type       |-> state.currentTag,
     content    |-> decodeXmlEntities(Slice(text, 0, close)),
     attributes |-> ResolvedAttributes(registry, state.currentTag,
                                       parseAttributes(state.currentAttrs))]

ReturnFromTag ==
    /\ ChunkReturnStep
    /\ heap[stateRef[caller]].inComponent
    /\ Truthy(heap[stateRef[caller]].currentTag)

BodyAtReturn == heap[stateRef[caller]].buffer \o chunkArg

NoMatchStep ==
    /\ ChunkIterStep
    /\ ~heap[newStateRef].inComponent
    /\ ~HeadTag(frame.remaining).found

\* the text ends in '<' or is '<' followed by characters other than '>'
EndsOrIsOpenBracket(text) == EndsWith(text, <<"<">>) \/ LooksIncomplete(text)

\* the text from its last '<' on, empty when it has none
FromLastBracket(text) ==
    IF LastIndexOf(text, "<") = -1 THEN <<>>
    ELSE SliceFrom(text, LastIndexOf(text, "<"))

\* the text, or its part from the last '<' on, could be the start of a tag
AmbiguousTail(text) ==
    EndsOrIsOpenBracket(text) \/ EndsOrIsOpenBracket(FromLastBracket(text))

\* C29: the hold-back condition.  Outside an open tag, when no opening tag
\* matches, a tail is held back only if the unconsumed text ends in '<' or
\* is '<' followed by characters other than '>'; otherwise all of it is
\* emitted as text and the returned buffer is empty.  Stated for the texts
\* in which a '>' follows the last '<', as in '<b> c' and 'x < y > z',
\* and for those without '<'.
HoldBackOnlyAmbiguous ==
    [][/\ (NoMatchStep /\ ~AmbiguousTail(frame.remaining)) =>
            /\ frame'.remaining = <<>>
            /\ frame'.textBuffer = frame.textBuffer \o frame.remaining
       /\ (/\ ChunkReturnStep
           /\ ~heap[newStateRef].inComponent
           /\ heap[stateRef[caller]].buffer \o chunkArg # <<>>
           /\ ~HeadTag(heap[stateRef[caller]].buffer \o chunkArg).found
           /\ ~AmbiguousTail(heap[stateRef[caller]].buffer \o chunkArg)) =>
            /\ lastResult'[caller].state.buffer = <<>>
            /\ lastResult'[caller].segments =
                   << TextSegment(heap[stateRef[caller]].buffer \o chunkArg) >>]_vars

\* C30: the lookback window.  Outside an open tag, when no opening tag
\* matches and the unconsumed text has no '<' or its last '<' lies 20 or
\* more characters before the end, all of it is emitted as text and
\* nothing is held; when the last '<' lies within the final 19 characters,
\* the text before it is emitted and the loop is left with the tail from
\* that '<' on, which becomes the returned buffer.
LookbackWindow ==
    [][NoMatchStep =>
          IF \/ LastIndexOf(frame.remaining, "<") = -1
             \/ LastIndexOf(frame.remaining, "<") + 20 <= Len(frame.remaining)
          THEN /\ frame'.remaining = <<>>
               /\ frame'.textBuffer = frame.textBuffer \o frame.remaining
          ELSE /\ frame'.textBuffer =
                      frame.textBuffer
                          \o Slice(frame.remaining, 0, LastIndexOf(frame.remaining, "<"))
               /\ frame'.remaining = FromLastBracket(frame.remaining)
               /\ LoopOver(frame')]_vars

\* C31: bounded buffering outside a tag.  After every parseChunk call that
\* returns outside an open tag the returned buffer is shorter than
\* MAX_INCOMPLETE_TAG_LENGTH characters; only the body of an open tag is
\* held without bound.
BufferBoundedOutsideTag ==
    \A s \in streams :
        (returned[s] /\ ~lastResult[s].state.inComponent) =>
            Len(lastResult[s].state.buffer) < MAX_INCOMPLETE_TAG_LENGTH

\* what parseChunk returns for the whole text of stream s as one chunk
WholeChunk(s) == parseChunk(registry, input[s], createState)

\* C32: an opening tag split at any position.  For a text that starts with
\* a complete opening tag of the registry, feeding it in chunks, one of
\* them ending inside the opening tag, gives the same tag segment as
\* feeding it as one chunk, also when the part of the tag in the first
\* chunk is 20 or more characters long.
SplitTagSameSegment ==
    \A s \in streams :
        LET Same(whole) ==
                (/\ whole # NeverReturns
                 /\ whole.segments # <<>>
                 /\ whole.segments[1].type # S_text) =>
                    /\ out[s] # <<>>
                    /\ out[s][1] = whole.segments[1]
        IN  (/\ Finished(s)
             /\ HeadTag(input[s]).found
             /\ HeadTag(input[s]).index = 0) => Same(WholeChunk(s))

\* C33: immediate emission of self-closing tags.  Whenever the unconsumed
\* text outside an open tag begins with a complete self-closing opening
\* tag, by its marker or by the registry, the call emits the segment
\* without content and stays outside any tag, whatever follows the tag in
\* the chunk, text that ends in '<' included.
SelfClosingEmittedAtOnce ==
    [][(/\ ChunkIterStep
        /\ ~heap[newStateRef].inComponent
        /\ HeadTag(frame.remaining).found
        /\ HeadTag(frame.remaining).index = 0
        /\ \/ HeadTag(frame.remaining).slash
           \/ DeclaredSelfClosing(ToLowerCase(HeadTag(frame.remaining).name)))
          => ZeroContentEmitted]_vars

\* C34: when parseChunk enters an open tag, tagStartIndex is the offset of
\* the '<' of the recognized opening tag within the text of that call, the
\* previous buffer and the chunk, also when plain text stands before the
\* tag; the returned state keeps it.
TagStartIsOffset ==
    [][/\ (/\ ChunkIterStep
           /\ ~heap[newStateRef].inComponent
           /\ heap'[newStateRef].inComponent) =>
             heap'[newStateRef].tagStartIndex =
                 Len(heap[newStateRef].buffer) - Len(frame.remaining)
       /\ ChunkReturnStep =>
             lastResult'[caller].state.tagStartIndex =
                 heap[newStateRef].tagStartIndex]_vars

\* the opening tag of the registry at 0-based index i of text, if any
TagAt(text, i) == OpenMatchAt(TagNames(registry), text, i)

\* the tag is self-closing by its marker or by the registry
SelfClosingTag(tag) ==
    \/ EndsWith(tag.text, <<"/", ">">>)
    \/ DeclaredSelfClosing(ToLowerCase(tag.name))

\* from index i on, with tag `open` open (Null: none), every '<' of text
\* starts a complete opening tag of the registry, which holds no further
\* '<', or the closing tag of the open tag, and no tag is left open
RECURSIVE WellFormedFrom(_, _, _)
WellFormedFrom(text, i, open) ==
    LET Opening(tag) ==
            /\ tag.found
            /\ \A k \in 2..Len(tag.text) : tag.text[k] # "<"
            /\ WellFormedFrom(text, i + Len(tag.text),
                   IF open # Null \/ SelfClosingTag(tag) THEN open
                   ELSE ToLowerCase(tag.name))
    IN  IF i >= Len(text) THEN open = Null
        ELSE IF text[i + 1] # "<" THEN WellFormedFrom(text, i + 1, open)
        ELSE IF open # Null /\ OccursAtCI(text, ClosingTagText(open), i)
        THEN WellFormedFrom(text, i + Len(open) + 3, Null)
        ELSE Opening(TagAt(text, i))

WellFormed(text) == WellFormedFrom(text, 0, Null)

\* C35: single-chunk agreement on well-formed input.  For a text in which
\* every '<' starts a complete opening tag of the registry or the closing
\* tag of the open tag, and every content-bearing tag is closed,
\* parseChunk on the whole text from a new state returns the segments of
\* parse, and finalize on the returned state returns nothing.
SingleChunkAgrees ==
    \A s \in streams :
        LET Agrees(whole) ==
                /\ whole # NeverReturns
                /\ whole.segments = parsed[s]
                /\ finalize(whole.state) = <<>>
        IN  (phase[s] # "new" /\ WellFormed(input[s])) => Agrees(WholeChunk(s))

\* the name is an element of registry.tagNames
IsTagName(name) == \E a \in 1..Len(registry) : registry[a].name = name

\* C36: every tag segment of parse or of parseChunk, and every
\* partialSegment, has a type that is an element of registry.tagNames,
\* whatever the registry: one without tags and one whose tag names hold
\* upper-case letters included.
TypesAreTagNames ==
    /\ \A seg \in AllSegments : seg.type # S_text => IsTagName(seg.type)
    /\ \A s \in streams :
           lastResult[s].partialSegment # NoPartial =>
               IsTagName(lastResult[s].partialSegment[1].type)

\* no two consecutive segments of the list are text segments
NoAdjacentTexts(segs) ==
    \A i \in 1..(Len(segs) - 1) :
        ~(segs[i].type = S_text /\ segs[i + 1].type = S_text)

EmptyChunkKeeps(state) ==
    LET NoOp(result) ==
            /\ result # NeverReturns
            /\ result.segments = <<>>
            /\ result.state = state
    IN  NoOp(parseChunk(registry, <<>>, state))

====
